---- MODULE Spec2Model ----
(***************************************************************************)
(* LazyIRCModel (server/fastapi/lazy_model.py): a wrapper that loads a     *)
(* pickled classifier in a background thread and answers predict() with    *)
(* the loaded model or with a creatinine-threshold fallback.               *)
(*                                                                         *)
(* Two processes: the background loader thread (_load_model, one step per  *)
(* statement that writes a field) and one caller thread (predict and the   *)
(* accessors).  predict reads _model_loaded once (line 76) and then runs   *)
(* its body; the loader may run between the two.                           *)
(*                                                                         *)
(* Floats are exact fractions <<numerator, denominator>>; probabilities    *)
(* and table weights are counted in units of 1/One.                        *)
(***************************************************************************)
EXTENDS Integers, Sequences, FiniteSets, TLC

VARIABLES
  model,                \* self._model
  feature_importance,   \* self._feature_importance
  stage_probabilities,  \* self._stage_probabilities
  model_loading,        \* self._model_loading
  model_loaded,         \* self._model_loaded
  loadpc,               \* position of the background thread in _load_model
  callpc,               \* position of the caller thread inside predict
  calls,                \* number of predict calls started
  ret                   \* what the caller's last operation returned

vars == <<model, feature_importance, stage_probabilities, model_loading,
          model_loaded, loadpc, callpc, calls, ret>>

caches == <<feature_importance, stage_probabilities>>
flags == <<model_loading, model_loaded>>

-----------------------------------------------------------------------------
(* Bounds and units *)

\* predict calls explored per behaviour
MaxCalls == 2

\* the float 1.0, in the unit all probabilities and weights are counted in
One == 1200

-----------------------------------------------------------------------------
(* Python values *)

\* self._model = None
NoneModel == [type |-> "None"]

\* an empty dict {}
EmptyDict == [k \in {} |-> <<0, 1>>]

\* a cache field: None, or a dict (a function from keys to fractions)
NoneCache == [isNone |-> TRUE, d |-> EmptyDict]
Dict(d) == [isNone |-> FALSE, d |-> d]

Range(s) == {s[i] : i \in DOMAIN s}

RECURSIVE SumNum(_, _)
\* sum of the numerators of dict d over the keys in S
SumNum(d, S) ==
  IF S = {} THEN 0
  ELSE LET k == CHOOSE x \in S : TRUE IN d[k][1] + SumNum(d, S \ {k})

RECURSIVE SumSeq(_, _)
\* s[1] + ... + s[n]
SumSeq(s, n) == IF n = 0 THEN 0 ELSE s[n] + SumSeq(s, n - 1)

-----------------------------------------------------------------------------
(* Patient records *)

CREAT == "Creatinine (mg/L)"
UREE == "Uree (g/L)"

\* the columns a record may carry, in the order the caller lists them; the last
\* one is a feature the fallback table does not know
FeatureUniverse == <<CREAT, UREE, "Poids (kg)">>

\* creatinine values: each threshold, its successor, and a low value
CreatinineValues == {10, 15, 16, 20, 21, 50, 51, 100, 101, 200, 201}

\* the creatinine values combined with every set of columns
SampleCreatinine == {15, 201}

Columns(S) == SelectSeq(FeatureUniverse, LAMBDA f : f \in S)

\* a record: its column names (df.columns) and its creatinine value (-1 when
\* the record has no creatinine column); every set of columns occurs, and
\* every creatinine value occurs in the records that carry that column alone
Records ==
  {[cols |-> <<CREAT>>, creat |-> c] : c \in CreatinineValues}
  \cup
  {[cols |-> Columns(S), creat |-> c] :
      S \in {T \in SUBSET Range(FeatureUniverse) : CREAT \in T},
      c \in SampleCreatinine}
  \cup
  {[cols |-> Columns(S), creat |-> -1] :
      S \in {T \in SUBSET Range(FeatureUniverse) : CREAT \notin T}}

HasColumn(r, name) == name \in Range(r.cols)

-----------------------------------------------------------------------------
(* Model objects *)

\* label sets a pickled classifier may have been trained with (classes_)
ClassSets == {0..5, 1..6}

\* feature_importances_ vectors of a pickled classifier
ImportanceVectors == {<<0, 0, 0>>, <<2, 1, 1>>, <<3, 1>>}

\* what pickle.load may return: an object without predict, or a fitted
\* classifier with or without predict_proba / feature_importances_
PickledObjects ==
  {[type |-> "PickledObject", hasPredict |-> FALSE, hasProba |-> FALSE,
    hasFI |-> FALSE, fitted |-> TRUE, classes |-> {}, importances |-> <<>>]}
  \cup
  {[type |-> "PickledClassifier", hasPredict |-> TRUE, hasProba |-> hp,
    hasFI |-> FALSE, fitted |-> TRUE, classes |-> cs, importances |-> <<>>] :
      hp \in BOOLEAN, cs \in ClassSets}
  \cup
  {[type |-> "PickledClassifier", hasPredict |-> TRUE, hasProba |-> hp,
    hasFI |-> TRUE, fitted |-> TRUE, classes |-> cs, importances |-> iv] :
      hp \in BOOLEAN, cs \in ClassSets, iv \in ImportanceVectors}

\* RandomForestClassifier(n_estimators=10, random_state=42), never fitted: its
\* predict raises
FallbackClassifier ==
  [type |-> "RandomForestClassifier", hasPredict |-> TRUE, hasProba |-> TRUE,
   hasFI |-> FALSE, fitted |-> FALSE, classes |-> {}, importances |-> <<>>]

\* hasattr(self._model, name); None has none of the capabilities
HasAttr(m, name) == m # NoneModel /\ m[name]

\* truth value of self._model in get_status: None is false, an instance is true
Truthy(m) == m # NoneModel

-----------------------------------------------------------------------------
(* Pure helpers of predict *)

\* mutant of FallbackStage: the first comparison written >= instead of >
FallbackStage_InclusiveBoundary(creatinine) ==
  IF creatinine >= 200 THEN 5
  ELSE IF creatinine > 100 THEN 4
  ELSE IF creatinine > 50 THEN 3
  ELSE IF creatinine > 20 THEN 2
  ELSE IF creatinine > 15 THEN 1
  ELSE 0

\* _fallback_predict, lines 115-126
FallbackStage(creatinine) ==
  IF creatinine > 200 THEN 5
  ELSE IF creatinine > 100 THEN 4
  ELSE IF creatinine > 50 THEN 3
  ELSE IF creatinine > 20 THEN 2
  ELSE IF creatinine > 15 THEN 1
  ELSE 0

\* confidence = 0.75 + random() * 0.2, in units of 1/One
Confidences == {900, 1110}

\* _generate_fallback_probabilities, lines 137-155
GenerateFallbackProbabilities(predicted_stage, confidence) ==
  LET remaining == One - confidence
      other_stages == {s \in 0..5 : s # predicted_stage}
  IN [s \in (0..5) \cup {predicted_stage} |->
        IF s = predicted_stage THEN <<confidence, One>>
        ELSE <<remaining \div Cardinality(other_stages), One>>]

\* the fixed table of _generate_fallback_feature_importance, lines 190-202
FallbackTable ==
  (CREAT :> 420) @@ (UREE :> 300) @@ ("Age" :> 180)
  @@ ("TA (mmHg)/Systole" :> 120) @@ ("Na^+ (meq/L)" :> 60)
  @@ ("Score de Glasgow (/15)" :> 60) @@ ("Sexe_M" :> 24)
  @@ ("Anemie_True" :> 36) @@ ("Choc de Pointe/Percu" :> 24)
  @@ ("Enquete Sociale/Tabac_True" :> 18)
  @@ ("Enquete Sociale/Alcool_True" :> 18)

\* mutant of GenerateFallbackFeatureImportance: the filtered table returned
\* without the normalisation of lines 210-213
GenerateFallbackFeatureImportance_Unnormalised(r) ==
  LET present == {k \in DOMAIN FallbackTable : k \in Range(r.cols)}
  IN [k \in present |-> <<FallbackTable[k], One>>]

\* _generate_fallback_feature_importance, lines 187-213
GenerateFallbackFeatureImportance(r) ==
  LET present == {k \in DOMAIN FallbackTable : k \in Range(r.cols)}
      total == SumNum([k \in present |-> <<FallbackTable[k], One>>], present)
  IN [k \in present |-> <<FallbackTable[k], total>>]

\* whether lines 162-177 raise: an importance vector shorter than the columns
\* (IndexError) or a zero total (ZeroDivisionError)
ImportanceExtractionRaises(m, r) ==
  \/ Len(m.importances) < Len(r.cols)
  \/ Len(r.cols) > 0 /\ SumSeq(m.importances, Len(r.cols)) = 0

\* _calculate_feature_importance, lines 159-182
CalculateFeatureImportance(m, r) ==
  IF HasAttr(m, "hasFI") /\ ~ImportanceExtractionRaises(m, r)
  THEN LET n == Len(r.cols)
           total == SumSeq(m.importances, n)
       IN [k \in Range(r.cols) |->
             LET i == CHOOSE j \in 1..n : r.cols[j] = k
             IN <<m.importances[i], total>>]
  ELSE GenerateFallbackFeatureImportance(r)

\* lines 94-96: predict_proba paired with classes_; the classifier puts all
\* its mass on the label it predicts
ModelProbabilities(m, label) ==
  [c \in m.classes |-> IF c = label THEN <<One, One>> ELSE <<0, One>>]

-----------------------------------------------------------------------------
(* Accessors, as functions of the state *)

\* is_model_ready, line 63
is_model_ready == model_loaded

\* get_stage_probabilities, line 217
get_stage_probabilities ==
  IF ~stage_probabilities.isNone /\ DOMAIN stage_probabilities.d # {}
  THEN stage_probabilities.d ELSE EmptyDict

\* get_feature_importance, line 221
get_feature_importance ==
  IF ~feature_importance.isNone /\ DOMAIN feature_importance.d # {}
  THEN feature_importance.d ELSE EmptyDict

\* get_status, lines 225-229
get_status ==
  [model_loaded |-> model_loaded,
   model_loading |-> model_loading,
   model_type |-> IF Truthy(model) THEN model.type ELSE "None"]

-----------------------------------------------------------------------------
(* State after __init__ returns: the fields of lines 15-19, _model_loading  *)
(* set by _start_loading_model, the thread started and asleep (line 38).    *)

Init ==
  /\ model = NoneModel
  /\ feature_importance = NoneCache
  /\ stage_probabilities = NoneCache
  /\ model_loading = TRUE
  /\ model_loaded = FALSE
  /\ loadpc = "sleep"
  /\ callpc = "idle"
  /\ calls = 0
  /\ ret = [op |-> "init"]

-----------------------------------------------------------------------------
(* The background thread *)

\* lines 38-41: open and unpickle; on success the object is stored
LoadModel ==
  /\ loadpc = "sleep"
  /\ \/ \E o \in PickledObjects : model' = o /\ loadpc' = "set_loaded"
     \/ model' = model /\ loadpc' = "except"
  /\ UNCHANGED <<caches, flags, callpc, calls, ret>>

\* line 43
SetLoaded ==
  /\ loadpc = "set_loaded"
  /\ model_loaded' = TRUE
  /\ loadpc' = "clear_loading"
  /\ UNCHANGED <<model, caches, model_loading, callpc, calls, ret>>

\* line 44
ClearLoading ==
  /\ loadpc = "clear_loading"
  /\ model_loading' = FALSE
  /\ loadpc' = "done"
  /\ UNCHANGED <<model, caches, model_loaded, callpc, calls, ret>>

\* line 48, in the except branch
ExceptClearLoading ==
  /\ loadpc = "except"
  /\ model_loading' = FALSE
  /\ loadpc' = "fallback_import"
  /\ UNCHANGED <<model, caches, model_loaded, callpc, calls, ret>>

\* line 54: the import inside _create_fallback_model; an ImportError leaves
\* the except branch and ends the thread
FallbackImport ==
  /\ loadpc = "fallback_import"
  /\ \/ loadpc' = "fallback_create"
     \/ loadpc' = "dead"
  /\ UNCHANGED <<model, caches, flags, callpc, calls, ret>>

\* mutant of FallbackCreate: lines 58 and 59 swapped, the flag written first
FallbackCreate_FlagFirst ==
  /\ loadpc = "fallback_create"
  /\ model_loaded' = TRUE
  /\ loadpc' = "fallback_set_loaded"
  /\ UNCHANGED <<model, caches, model_loading, callpc, calls, ret>>

\* line 58
FallbackCreate ==
  /\ loadpc = "fallback_create"
  /\ model' = FallbackClassifier
  /\ loadpc' = "fallback_set_loaded"
  /\ UNCHANGED <<caches, flags, callpc, calls, ret>>

\* mutant of FallbackSetLoaded: line 59 left out
FallbackSetLoaded_Forgotten ==
  /\ loadpc = "fallback_set_loaded"
  /\ loadpc' = "done"
  /\ UNCHANGED <<model, caches, flags, callpc, calls, ret>>

\* line 59
FallbackSetLoaded ==
  /\ loadpc = "fallback_set_loaded"
  /\ model_loaded' = TRUE
  /\ loadpc' = "done"
  /\ UNCHANGED <<model, caches, model_loading, callpc, calls, ret>>

Loader ==
  \/ LoadModel
  \/ SetLoaded
  \/ ClearLoading
  \/ ExceptClearLoading
  \/ FallbackImport
  \/ FallbackCreate
  \/ FallbackSetLoaded

-----------------------------------------------------------------------------
(* The caller thread *)

\* what predict hands back: the record it was called with, whether it raised,
\* the value returned (-1 when it raised), the branch it took, the label the
\* model had predicted (-1 when model.predict did not return), which model call
\* raised, and whether the importance extraction raised
PredictReturn(r, raised, val, path, label, raisedAt, fiRaised) ==
  [op |-> "predict", rec |-> r, raised |-> raised, val |-> val, path |-> path,
   label |-> label, raisedAt |-> raisedAt, fiRaised |-> fiRaised]

\* _fallback_predict, lines 110-132: df['Creatinine (mg/L)'] raises KeyError
\* when the column is absent, before any field is written
FallbackPredict(r, conf, path, label, raisedAt) ==
  IF ~HasColumn(r, CREAT)
  THEN /\ ret' = PredictReturn(r, TRUE, -1, path, label, raisedAt, FALSE)
       /\ UNCHANGED caches
  ELSE LET stage == FallbackStage(r.creat) IN
       /\ stage_probabilities' = Dict(GenerateFallbackProbabilities(stage, conf))
       /\ feature_importance' = Dict(GenerateFallbackFeatureImportance(r))
       /\ ret' = PredictReturn(r, FALSE, stage, path, label, raisedAt, FALSE)

\* line 76: the one read of _model_loaded
PredictCheck ==
  /\ callpc = "idle"
  /\ calls < MaxCalls
  /\ calls' = calls + 1
  /\ callpc' = IF model_loaded THEN "ready" ELSE "not_ready"
  /\ ret' = [op |-> "predict_running"]
  /\ UNCHANGED <<model, caches, flags, loadpc>>

\* lines 77-78
PredictNotReady ==
  /\ callpc = "not_ready"
  /\ \E r \in Records, conf \in Confidences :
       FallbackPredict(r, conf, "not_ready", -1, "none")
  /\ callpc' = "idle"
  /\ UNCHANGED <<model, flags, loadpc, calls>>

\* mutant of PredictBody: the except branch of line 106 hands back the stage
\* the model had predicted instead of calling _fallback_predict
PredictBody_KeepsLabel(r, conf, raises, label) ==
  IF ~HasAttr(model, "hasPredict")
  THEN FallbackPredict(r, conf, "no_predict", -1, "none")
  ELSE IF ~model.fitted \/ raises = "predict"
  THEN FallbackPredict(r, conf, "except", -1, "predict")
  ELSE IF model.hasProba /\ raises = "proba"
  THEN /\ ret' = PredictReturn(r, FALSE, label, "except", label, "proba", FALSE)
       /\ UNCHANGED caches
  ELSE /\ stage_probabilities' =
            IF model.hasProba THEN Dict(ModelProbabilities(model, label))
            ELSE Dict(GenerateFallbackProbabilities(label, conf))
       /\ feature_importance' = Dict(CalculateFeatureImportance(model, r))
       /\ ret' = PredictReturn(r, FALSE, label, "model", label, "none",
                               HasAttr(model, "hasFI")
                                 /\ ImportanceExtractionRaises(model, r))

\* lines 80-108 for one outcome of the model's calls: `raises` names the call
\* that raises (if any), `label` is int(prediction[0])
PredictBody(r, conf, raises, label) ==
  IF ~HasAttr(model, "hasPredict")
  THEN FallbackPredict(r, conf, "no_predict", -1, "none")
  ELSE IF ~model.fitted \/ raises = "predict"
  THEN FallbackPredict(r, conf, "except", -1, "predict")
  ELSE IF model.hasProba /\ raises = "proba"
  THEN FallbackPredict(r, conf, "except", label, "proba")
  ELSE /\ stage_probabilities' =
            IF model.hasProba THEN Dict(ModelProbabilities(model, label))
            ELSE Dict(GenerateFallbackProbabilities(label, conf))
       /\ feature_importance' = Dict(CalculateFeatureImportance(model, r))
       /\ ret' = PredictReturn(r, FALSE, label, "model", label, "none",
                               HasAttr(model, "hasFI")
                                 /\ ImportanceExtractionRaises(model, r))

\* the labels model.predict may return: one of its classes
PredictableLabels(m) == IF HasAttr(m, "hasPredict") /\ m.classes # {} THEN m.classes ELSE {-1}

\* lines 80-108
PredictReady ==
  /\ callpc = "ready"
  /\ \E r \in Records, conf \in Confidences :
       \/ PredictBody(r, conf, "predict", -1)
       \/ \E raises \in {"none", "proba"}, label \in PredictableLabels(model) :
            PredictBody(r, conf, raises, label)
  /\ callpc' = "idle"
  /\ UNCHANGED <<model, flags, loadpc, calls>>

\* is_model_ready()
IsModelReadyCall ==
  /\ callpc = "idle"
  /\ ret' = [op |-> "is_model_ready", val |-> is_model_ready]
  /\ UNCHANGED <<model, caches, flags, loadpc, callpc, calls>>

\* mutant of GetStageProbabilitiesCall: the accessor hands the cache over and
\* clears it
GetStageProbabilitiesCall_Consuming ==
  /\ callpc = "idle"
  /\ ret' = [op |-> "get_stage_probabilities", val |-> get_stage_probabilities]
  /\ stage_probabilities' = NoneCache
  /\ UNCHANGED <<model, feature_importance, flags, loadpc, callpc, calls>>

\* get_stage_probabilities()
GetStageProbabilitiesCall ==
  /\ callpc = "idle"
  /\ ret' = [op |-> "get_stage_probabilities", val |-> get_stage_probabilities]
  /\ UNCHANGED <<model, caches, flags, loadpc, callpc, calls>>

\* get_feature_importance()
GetFeatureImportanceCall ==
  /\ callpc = "idle"
  /\ ret' = [op |-> "get_feature_importance", val |-> get_feature_importance]
  /\ UNCHANGED <<model, caches, flags, loadpc, callpc, calls>>

\* get_status()
GetStatusCall ==
  /\ callpc = "idle"
  /\ ret' = [op |-> "get_status", val |-> get_status]
  /\ UNCHANGED <<model, caches, flags, loadpc, callpc, calls>>

Caller ==
  \/ PredictCheck
  \/ PredictNotReady
  \/ PredictReady
  \/ IsModelReadyCall
  \/ GetStageProbabilitiesCall
  \/ GetFeatureImportanceCall
  \/ GetStatusCall

Next == Loader \/ Caller

Spec == Init /\ [][Next]_vars

\* the background thread is a started OS thread: each of its steps is
\* eventually taken
FairSpec == Spec /\ WF_vars(Loader)

-----------------------------------------------------------------------------
(* Properties *)

\* the last operation was a predict call that has ended (returned or raised)
PredictEnded == ret.op = "predict"

\* the last operation was a predict call that returned a stage
PredictReturned == ret.op = "predict" /\ ~ret.raised

\* predict ended on the rule-based path: lines 77-78, 85-86 or 106-108
RuleBased == PredictEnded /\ ret.path \in {"not_ready", "no_predict", "except"}

\* the values of a non-empty dict are fractions over one denominator that add
\* up to 1
SumsToOne(d) ==
  /\ DOMAIN d # {}
  /\ \E den \in {d[k][2] : k \in DOMAIN d} :
       /\ den > 0
       /\ \A k \in DOMAIN d : d[k][2] = den
       /\ SumNum(d, DOMAIN d) = den

\* sp is what the fallback synthesis gives for `stage`: keys 0..5, a confidence
\* in [0.75, 0.95) on `stage`, a fifth of the rest on each other stage
IsFallbackSynthesis(sp, stage) ==
  /\ DOMAIN sp = 0..5
  /\ stage \in 0..5
  /\ sp[stage][2] = One
  /\ 4 * sp[stage][1] >= 3 * One
  /\ 20 * sp[stage][1] < 19 * One
  /\ \A s \in (0..5) \ {stage} :
       sp[s][2] = One /\ 5 * sp[s][1] = One - sp[stage][1]

\* fi is the fallback table cut down to the record's columns and renormalised
IsFallbackImportance(fi, r) ==
  LET present == DOMAIN FallbackTable \cap Range(r.cols)
      weights == [k \in present |-> <<FallbackTable[k], 1>>]
  IN /\ DOMAIN fi = present
     /\ \A k \in present :
          fi[k] = <<FallbackTable[k], SumNum(weights, present)>>

\* the stage the threshold table of the specification gives to creatinine c:
\* the number of thresholds c is strictly above
ThresholdStage(c) == Cardinality({t \in {15, 20, 50, 100, 200} : c > t})

\* C1: for every record and in every load state, a predict call returns an
\* integer stage to its caller and never raises.
C1_PredictNeverRaises ==
  PredictEnded => ~ret.raised /\ ret.val \in Int

\* C2: for every valid record (one carrying a creatinine value) and on every
\* path, the value predict returns is an integer in {0,...,5}.
C2_StageInRange ==
  (PredictReturned /\ HasColumn(ret.rec, CREAT)) => ret.val \in 0..5

\* C3: whenever predict returns from the rule-based path (model not ready at
\* the call, loaded object without predict, exception in the model path), the
\* stage is fixed by the creatinine value c alone: the number of thresholds
\* 15, 20, 50, 100, 200 that c exceeds strictly, so that c = 200 gives 4,
\* c = 100 gives 3, c = 50 gives 2, c = 20 gives 1 and c = 15 gives 0.
C3_RuleBasedThresholds ==
  (RuleBased /\ ~ret.raised) =>
    LET c == ret.rec.creat IN
    /\ ret.val = ThresholdStage(c)
    /\ (c = 200 => ret.val = 4)
    /\ (c = 100 => ret.val = 3)
    /\ (c = 50 => ret.val = 2)
    /\ (c = 20 => ret.val = 1)
    /\ (c = 15 => ret.val = 0)
    /\ (c = 201 => ret.val = 5)

\* C3 witness: the except branch of a ready wrapper answered a record whose
\* creatinine is exactly 200 with stage 4.
C3_Witness ==
  /\ PredictReturned
  /\ ret.path = "except"
  /\ ret.rec.creat = 200
  /\ ret.val = 4

\* C4: after any completed predict call, get_stage_probabilities() returns a
\* mapping whose key set is exactly {0,...,5} and whose values sum to 1.
C4_ProbabilitiesOverAllStages ==
  PredictReturned =>
    /\ DOMAIN get_stage_probabilities = 0..5
    /\ SumsToOne(get_stage_probabilities)

\* C5: after any completed predict call, get_feature_importance() returns a
\* mapping whose keys are columns of the submitted record and whose values sum
\* to 1, or an empty mapping, and then none of the table's feature names is a
\* column of the record; an importance extraction that raised (IndexError,
\* ZeroDivisionError) did not make predict raise and left the renormalised
\* fallback table behind.
C5_FeatureImportance ==
  PredictReturned =>
    LET fi == get_feature_importance IN
    /\ DOMAIN fi \subseteq Range(ret.rec.cols)
    /\ \/ SumsToOne(fi)
       \/ /\ fi = EmptyDict
          /\ DOMAIN FallbackTable \cap Range(ret.rec.cols) = {}
    /\ (ret.fiRaised => IsFallbackImportance(fi, ret.rec))

\* C5 witness: a predict call on the model path whose importance extraction
\* raised, and that returned with an importance mapping summing to 1.
C5_Witness ==
  /\ PredictReturned
  /\ ret.fiRaised
  /\ SumsToOne(get_feature_importance)

\* C6 as stated: is_model_ready() becomes true whichever way the load ends, so
\* it is true once the load thread has ended.
C6_ReadyWheneverLoadEnds ==
  loadpc \in {"done", "dead"} => is_model_ready

\* C6 amended: is_model_ready() is false when the constructor returns, once
\* true it stays true, and under fair scheduling of the load thread it becomes
\* true unless the thread died building the fallback object, in which case it
\* is false for ever.
C6_ReadyUnlessFallbackFails ==
  /\ ~is_model_ready
  /\ [][is_model_ready => is_model_ready']_vars
  /\ [](loadpc = "dead" => ~is_model_ready)
  /\ [][loadpc = "dead" => loadpc' = "dead"]_vars
  /\ <>(is_model_ready \/ loadpc = "dead")

\* C6 witness: the load failed, the fallback classifier was built, and the
\* wrapper is ready.
C6_Witness ==
  /\ is_model_ready
  /\ model = FallbackClassifier
  /\ loadpc = "done"

\* C7: whatever the interleaving, get_status reports either loading
\* (model_loading true, model_loaded false) or the terminal state
\* (model_loading false, model_loaded true), and no other flag combination.
C7_LifecycleFlags ==
  ret.op = "get_status" =>
    \/ ret.val.model_loading /\ ~ret.val.model_loaded
    \/ ~ret.val.model_loading /\ ret.val.model_loaded

PredictEnds == callpc # "idle" /\ callpc' = "idle"

\* C9: both accessors return an empty mapping as long as predict has never
\* been called; only the step that ends a predict call changes a cached
\* mapping (the accessors, is_model_ready, get_status and the load thread leave
\* both unchanged); each accessor returns the cached mapping; and get_status
\* returns what a second get_status right after it returns.
C9_AccessorsAndFrame ==
  /\ [](calls = 0 =>
          get_stage_probabilities = EmptyDict /\ get_feature_importance = EmptyDict)
  /\ [][~PredictEnds => UNCHANGED caches]_vars
  /\ [][(ret' # ret /\ ret'.op = "get_stage_probabilities") =>
          ret'.val = get_stage_probabilities /\ ret'.val = get_stage_probabilities']_vars
  /\ [][(ret' # ret /\ ret'.op = "get_feature_importance") =>
          ret'.val = get_feature_importance /\ ret'.val = get_feature_importance']_vars
  /\ [][(ret' # ret /\ ret'.op = "get_status") =>
          ret'.val = get_status /\ ret'.val = get_status']_vars

\* C9 witness: after a predict call, get_stage_probabilities() returned a
\* non-empty mapping, the one that is cached.
C9_Witness ==
  /\ calls > 0
  /\ ret.op = "get_stage_probabilities"
  /\ ret.val # EmptyDict
  /\ ret.val = stage_probabilities.d

====
